---- MODULE Spec2Model ----
(***************************************************************************)
(* bevy_skynet: the lobby (session) state machine of the Steam backend,    *)
(* the bounded event channels between the SDK callbacks and the per-frame  *)
(* bridge system, and the typed message registry with its packet router.   *)
(*                                                                         *)
(* Two threads are modelled: the application thread, which runs the        *)
(* lobby requests and the per-frame systems (pcMain), and the SDK callback *)
(* thread, which runs the closures registered in Backend::new (pcCb).      *)
(* The lobby data sits behind a parking_lot RwLock: rguards counts the     *)
(* read guards the application thread holds, writerWaiting says that the   *)
(* callback thread is parked in write() behind them.                       *)
(***************************************************************************)
EXTENDS Integers, Sequences, FiniteSets, TLC

\* ---------------------------------------------------------------- bounds

\* capacity of every event channel and typed queue (config channel_size)
ChannelSize == 2
\* lobby requests of the application and join requests of the provider,
\* over a run
MaxEvents == 3
\* chat messages and roster changes the provider reports, over a run
MaxNotifications == 3
\* add_message registrations
MaxRegistrations == 3
\* packets the transport buffers over a run
MaxPackets == 3

\* ------------------------------------------------------------ value sets

Me == "me"
Peer == "peer"
Users == {Me, Peer}
LobbyIds == {1, 2}
\* the lobby join_lobby is called with, the lobby the provider's join
\* requests name, and the id the provider gives a created lobby
JoinTargets == {1}
InviteTargets == {2}
CreatedIds == {2}
\* the visibilities create_lobby is called with
RequestedVisibilities == {"InviteOnly"}
\* max_members values create_lobby is called with
MemberCaps == {2}
\* answers of the provider's lobby_member_limit: a limit, or none (0)
LimitAnswers == {2}

VARIABLES
    \* LobbyData behind Arc<RwLock<..>>
    state, curr,
    \* Backend.members
    members,
    \* BackendEvents: the five channels
    on_lobby_join, on_lobby_exit, on_lobby_msg, on_lobby_change, on_lobby_error,
    \* the RwLock
    rguards, writerWaiting,
    \* the two threads
    pcMain, pcCb, cbEv,
    \* the provider: create/join requests it has not answered, and each
    \* lobby's member list
    pending, roster,
    \* the application side of the bridge: State<LobbyState>, the
    \* CurrentLobby resource, State<IsLobbyHost>, and the pass's locals
    appState, lobbyRes, appIsHost, actual, cmd,
    \* events written so far by the bridge pass in progress
    emitted,
    \* history: the last request's result, sends since the last drain,
    \* drops logged since then, counters
    lastCall, sent, dropLog, nEv, nNote,
    \* the users the last broadcast_packet sent a packet to
    castTo,
    \* message bus: registry, typed queues, transport, router
    registry, queues, nReg, panicked, started, inbox, nPkt, sizeMode, routed, polled,
    \* history of the typed queues: the last MessageRegistry::send, the
    \* messages each queue has accepted and those polled from it
    dispatched, accepted, taken

sessionVars == <<state, curr, members, on_lobby_join, on_lobby_exit, on_lobby_msg,
                 on_lobby_change, on_lobby_error, rguards, writerWaiting, pcMain,
                 pcCb, cbEv, pending, roster, appState, lobbyRes, appIsHost,
                 actual, cmd, emitted, lastCall, sent, dropLog, nEv,
                 nNote,
                 castTo>>
busVars == <<registry, queues, nReg, panicked, started, inbox, nPkt, sizeMode, routed,
             polled, dispatched, accepted, taken>>
vars == <<sessionVars, busVars>>

\* ---------------------------------------------------------------- helpers

Range(s) == {s[i] : i \in 1..Len(s)}
Take(s, n) == SubSeq(s, 1, IF n < Len(s) THEN n ELSE Len(s))
RemoveAt(s, i) == SubSeq(s, 1, i - 1) \o SubSeq(s, i + 1, Len(s))
Without(s, x) == SelectSeq(s, LAMBDA y : y # x)

\* base62::encode of a lobby id, as its digits
RECURSIVE Base62Encode(_)
Base62Encode(n) == IF n < 62 THEN <<n>> ELSE Base62Encode(n \div 62) \o <<n % 62>>

NoLobby == [none |-> TRUE]

\* the requests the provider can hold: a create, a join of a lobby asked
\* for by the application, a join asked for by the join-request callback
Requests == [kind : {"create"}, lobby : {0}] \cup
            [kind : {"join", "redirect"}, lobby : LobbyIds]
Issue(p, r) == [p EXCEPT ![r] = @ + 1]
Answer(p, r) == [p EXCEPT ![r] = @ - 1]

\* impl Default for CurrentLobby
DefaultLobby == [id |-> 0, vis |-> "Anyone", is_host |-> FALSE, max_members |-> 4,
                 invite_code |-> <<>>, others |-> <<>>]

\* tokio mpsc try_send on a channel of capacity ChannelSize: the channel
\* after the call
TrySendRing(q, item) ==
    IF Len(q) < ChannelSize THEN Append(q, item) ELSE Append(Tail(q), item)
try_send(q, item) == IF Len(q) < ChannelSize THEN Append(q, item) ELSE q
\* whether that try_send returned Err (the callbacks then log)
IsFull(q) == Len(q) >= ChannelSize

\* ------------------------------------------------------------- LobbyData

SetJoiningUnguarded(st, cur, data) == [some |-> TRUE, state |-> st, curr |-> data]
set_joining_if_none(st, cur, data) ==
    IF st = "None"
    THEN [some |-> TRUE, state |-> st, curr |-> data]
    ELSE [some |-> FALSE, state |-> st, curr |-> cur]

GetUnlessJoining(st, cur) == IF st # "Joining" THEN cur ELSE NoLobby
get_if_in_lobby(st, cur) == IF st = "InLobby" THEN cur ELSE NoLobby

\* ---------------------------------------------------------- the provider

\* matchmaking().leave_lobby(id)
ProviderLeave(r, id) ==
    IF id \in LobbyIds THEN [r EXCEPT ![id] = Without(r[id], Me)] ELSE r

\* the user becomes a member of lobby l
ProviderEnter(r, l) ==
    IF Me \in Range(r[l]) THEN r ELSE [r EXCEPT ![l] = Append(r[l], Me)]

\* Backend::lobby_members once the InLobby check has passed: the
\* provider's list with the first occurrence of the local user removed
MembersOf(r, id) ==
    LET m == IF id \in LobbyIds THEN r[id] ELSE <<>>
    IN IF \E i \in 1..Len(m) : m[i] = Me
       THEN RemoveAt(m, CHOOSE i \in 1..Len(m) :
                            m[i] = Me /\ \A j \in 1..(i - 1) : m[j] # Me)
       ELSE m

lobby_members(st, cur, r) ==
    IF get_if_in_lobby(st, cur) # NoLobby THEN MembersOf(r, cur.id) ELSE <<>>

\* TryFrom<ChatRoomEnterResponse> for LobbyErrorKind ("Ok" stands for Err(()))
EnterErrorKind(resp) ==
    CASE resp = "Success" -> "Ok"
      [] resp = "DoesntExist" -> "NotFound"
      [] resp = "NotAllowed" -> "AccessDenied"
      [] resp = "Full" -> "Full"
      [] resp = "Error" -> "Unknown"
      [] resp = "Banned" -> "Banned"
      [] resp = "Limited" -> "TooFast"
      [] resp = "ClanDisabled" -> "Banned"
      [] resp = "CommunityBan" -> "Banned"
      [] resp = "MemberBlockedYou" -> "Blocked"
      [] resp = "YouBlockedMember" -> "Blocked"
      [] resp = "RatelimitExceeded" -> "TooFast"

\* TryFrom<LobbyCreated> for LobbyErrorKind, on the result code
CreateErrorKind(result) ==
    CASE result = 1 -> "Ok"
      [] result = 16 -> "TimedOut"
      [] result = 25 -> "TooFast"
      [] result = 15 -> "AccessDenied"
      [] result = 3 -> "Offline"
      [] OTHER -> "Unknown"

\* the failures the provider is made to report here
EnterFailures == {"Limited"}
CreateFailures == {16}

\* ------------------------------------------------------------------ Init

Channels == {"join", "exit", "msg", "change", "error"}

SessionInit ==
    /\ state = "None"
    /\ curr = DefaultLobby
    /\ members = <<>>
    /\ on_lobby_join = <<>>
    /\ on_lobby_exit = <<>>
    /\ on_lobby_msg = <<>>
    /\ on_lobby_change = <<>>
    /\ on_lobby_error = <<>>
    /\ rguards = 0
    /\ writerWaiting = FALSE
    /\ pcMain = "idle"
    /\ pcCb = "idle"
    /\ cbEv = NoLobby
    /\ pending = [r \in Requests |-> 0]
    /\ roster = [l \in LobbyIds |-> <<>>]
    /\ appState = "None"
    /\ lobbyRes = NoLobby
    /\ appIsHost = FALSE
    /\ actual = "None"
    /\ cmd = [op |-> "none"]
    /\ emitted = <<>>
    /\ lastCall = [op |-> "none", ret |-> "none"]
    /\ sent = [c \in {"msg", "change"} |-> <<>>]
    /\ dropLog = [c \in Channels |-> 0]
    /\ nEv = 0
    /\ nNote = 0
    /\ castTo = <<>>

\* a callback's log line when its try_send found the channel full
Logged(q, ch) == IF IsFull(q) THEN [dropLog EXCEPT ![ch] = @ + 1] ELSE dropLog

\* the callback thread parks in write() behind the application thread's
\* read guard
CbParks ==
    /\ pcCb' = "parked"
    /\ writerWaiting' = TRUE

\* --------------------------------------------------- application requests

\* Backend::create_lobby: the write guard is held over the whole body
create_lobby(vis, max_members) ==
    /\ pcMain = "idle"
    /\ nEv < MaxEvents
    /\ nEv' = nEv + 1
    /\ LET data == [DefaultLobby EXCEPT !.vis = vis, !.max_members = max_members,
                                        !.is_host = TRUE]
           r == set_joining_if_none(state, curr, data)
       IN /\ state' = r.state
          /\ curr' = r.curr
          /\ pending' = IF r.some
                        THEN Issue(pending, [kind |-> "create", lobby |-> 0])
                        ELSE pending
          /\ lastCall' = [op |-> "create", ret |-> IF r.some THEN "true" ELSE "false"]
    /\ UNCHANGED <<members, on_lobby_join, on_lobby_exit, on_lobby_msg,
                   on_lobby_change, on_lobby_error, rguards, writerWaiting, pcMain,
                   pcCb, cbEv, roster, appState, lobbyRes, appIsHost, actual, cmd,
                   emitted, sent, dropLog, nNote, castTo>>
    /\ UNCHANGED busVars

\* Backend::join_lobby
join_lobby(lobby) ==
    /\ pcMain = "idle"
    /\ nEv < MaxEvents
    /\ nEv' = nEv + 1
    /\ LET data == [DefaultLobby EXCEPT !.id = lobby, !.is_host = FALSE]
           r == set_joining_if_none(state, curr, data)
       IN /\ state' = r.state
          /\ curr' = r.curr
          /\ pending' = IF r.some
                        THEN Issue(pending, [kind |-> "join", lobby |-> lobby])
                        ELSE pending
          /\ lastCall' = [op |-> "join", ret |-> IF r.some THEN "true" ELSE "false"]
    /\ UNCHANGED <<members, on_lobby_join, on_lobby_exit, on_lobby_msg,
                   on_lobby_change, on_lobby_error, rguards, writerWaiting, pcMain,
                   pcCb, cbEv, roster, appState, lobbyRes, appIsHost, actual, cmd,
                   emitted, sent, dropLog, nNote, castTo>>
    /\ UNCHANGED busVars

ExitLobbyAlways ==
    /\ pcMain = "idle"
    /\ rguards' = rguards + 1
    /\ pcMain' = "exit_send"
    /\ lastCall' = [op |-> "exit", ret |-> "running"]
    /\ UNCHANGED <<state, curr, members, on_lobby_join, on_lobby_exit, on_lobby_msg,
                   on_lobby_change, on_lobby_error, writerWaiting, pcCb, cbEv, pending,
                   roster, appState, lobbyRes, appIsHost, actual, cmd, emitted, sent,
                   dropLog, nEv, nNote, castTo>>
    /\ UNCHANGED busVars

\* Backend::exit_lobby, up to the InLobby check: the read guard taken for
\* the check lives to the end of the if-let
exit_lobby ==
    /\ pcMain = "idle"
    /\ IF get_if_in_lobby(state, curr) # NoLobby
       THEN /\ rguards' = rguards + 1
            /\ pcMain' = "exit_send"
            /\ lastCall' = [op |-> "exit", ret |-> "running"]
       ELSE /\ rguards' = rguards
            /\ pcMain' = "idle"
            /\ lastCall' = [op |-> "exit", ret |-> "false"]
    /\ UNCHANGED <<state, curr, members, on_lobby_join, on_lobby_exit, on_lobby_msg,
                   on_lobby_change, on_lobby_error, writerWaiting, pcCb, cbEv, pending,
                   roster, appState, lobbyRes, appIsHost, actual, cmd, emitted, sent,
                   dropLog, nEv, nNote, castTo>>
    /\ UNCHANGED busVars

\* exit_lobby: Receiver::send is blocking_send, which waits for space;
\* then the provider's leave_lobby
exit_lobby_send ==
    /\ pcMain = "exit_send"
    /\ Len(on_lobby_exit) < ChannelSize
    /\ on_lobby_exit' = Append(on_lobby_exit, [id |-> curr.id])
    /\ roster' = ProviderLeave(roster, curr.id)
    /\ pcMain' = "exit_write"
    /\ UNCHANGED <<state, curr, members, on_lobby_join, on_lobby_msg, on_lobby_change,
                   on_lobby_error, rguards, writerWaiting, pcCb, cbEv, pending,
                   appState, lobbyRes, appIsHost, actual, cmd, emitted, lastCall, sent,
                   dropLog, nEv, nNote, castTo>>
    /\ UNCHANGED busVars

\* exit_lobby: self.lobby.write() is granted only with no read guard out;
\* the thread's own guard is one
exit_lobby_write ==
    /\ pcMain = "exit_write"
    /\ IF rguards = 0
       THEN /\ state' = "None"
            /\ pcMain' = "idle"
            /\ lastCall' = [op |-> "exit", ret |-> "true"]
       ELSE /\ state' = state
            /\ pcMain' = "exit_blocked_write"
            /\ lastCall' = [op |-> "exit", ret |-> "never"]
    /\ UNCHANGED <<curr, members, on_lobby_join, on_lobby_exit, on_lobby_msg,
                   on_lobby_change, on_lobby_error, rguards, writerWaiting, pcCb, cbEv,
                   pending, roster, appState, lobbyRes, appIsHost, actual, cmd,
                   emitted, sent, dropLog, nEv, nNote, castTo>>
    /\ UNCHANGED busVars

\* ------------------------------------------------- SDK callbacks (Backend::new)

\* LobbyCreated callback, the provider reporting that a create failed:
\* the lobby write, then the error event
LobbyCreatedFailed(r, result) ==
    /\ pcCb = "idle"
    /\ pending[r] > 0
    /\ r.kind = "create"
    /\ CreateErrorKind(result) # "Ok"
    /\ pending' = Answer(pending, r)
    /\ IF rguards = 0
       THEN /\ state' = "None"
            /\ on_lobby_error' = try_send(on_lobby_error,
                                          [id |-> 0, kind |-> CreateErrorKind(result)])
            /\ dropLog' = Logged(on_lobby_error, "error")
            /\ UNCHANGED <<pcCb, writerWaiting>>
       ELSE /\ CbParks
            /\ UNCHANGED <<state, on_lobby_error, dropLog>>
    /\ UNCHANGED <<curr, members, on_lobby_join, on_lobby_exit, on_lobby_msg,
                   on_lobby_change, rguards, pcMain, cbEv, roster, appState, lobbyRes,
                   appIsHost, actual, cmd, emitted, lastCall, sent, nEv, nNote, castTo>>
    /\ UNCHANGED busVars

\* LobbyEnter callback, the provider reporting that a join failed
LobbyEnterFailed(r, resp) ==
    /\ pcCb = "idle"
    /\ pending[r] > 0
    /\ r.kind # "create"
    /\ EnterErrorKind(resp) # "Ok"
    /\ pending' = Answer(pending, r)
    /\ IF rguards = 0
       THEN /\ state' = "None"
            /\ on_lobby_error' = try_send(on_lobby_error,
                                          [id |-> r.lobby,
                                           kind |-> EnterErrorKind(resp)])
            /\ dropLog' = Logged(on_lobby_error, "error")
            /\ UNCHANGED <<pcCb, writerWaiting>>
       ELSE /\ CbParks
            /\ UNCHANGED <<state, on_lobby_error, dropLog>>
    /\ UNCHANGED <<curr, members, on_lobby_join, on_lobby_exit, on_lobby_msg,
                   on_lobby_change, rguards, pcMain, cbEv, roster, appState, lobbyRes,
                   appIsHost, actual, cmd, emitted, lastCall, sent, nEv, nNote, castTo>>
    /\ UNCHANGED busVars

\* LobbyEnter callback with Success, for a join of r.lobby or for
\* a create, which the provider answers with the id l of the new lobby
\* (the LobbyCreated callback does nothing on success): the join event is
\* sent first
LobbyEnterSend(r, l, limit) ==
    /\ pcCb = "idle"
    /\ pending[r] > 0
    /\ EnterErrorKind("Success") = "Ok"
    /\ l \in (IF r.kind = "create" THEN CreatedIds ELSE {r.lobby})
    /\ pending' = Answer(pending, r)
    /\ roster' = ProviderEnter(roster, l)
    /\ on_lobby_join' = try_send(on_lobby_join, [id |-> l])
    /\ dropLog' = Logged(on_lobby_join, "join")
    /\ pcCb' = "enter_write"
    /\ cbEv' = [lobby |-> l, limit |-> limit, kind |-> r.kind]
    /\ UNCHANGED <<state, curr, members, on_lobby_exit, on_lobby_msg, on_lobby_change,
                   on_lobby_error, rguards, writerWaiting, pcMain, appState, lobbyRes,
                   appIsHost, actual, cmd, emitted, lastCall, sent, nEv, nNote, castTo>>
    /\ UNCHANGED busVars

\* ... then the lobby data is updated under the write lock
LobbyEnterWrite ==
    /\ pcCb = "enter_write"
    /\ IF rguards = 0
       THEN /\ state' = "InLobby"
            /\ curr' = [curr EXCEPT
                           !.id = cbEv.lobby,
                           !.invite_code = Base62Encode(cbEv.lobby),
                           !.max_members = IF cbEv.limit = 0 THEN 4 ELSE cbEv.limit,
                           !.others = roster[cbEv.lobby]]
            /\ pcCb' = "idle"
            /\ UNCHANGED writerWaiting
       ELSE /\ CbParks
            /\ UNCHANGED <<state, curr>>
    /\ UNCHANGED <<members, on_lobby_join, on_lobby_exit, on_lobby_msg,
                   on_lobby_change, on_lobby_error, rguards, pcMain, cbEv, pending,
                   roster, appState, lobbyRes, appIsHost, actual, cmd, emitted,
                   lastCall, sent, dropLog, nEv, nNote, castTo>>
    /\ UNCHANGED busVars

JoinRequestedAlways(l) ==
    /\ pcCb = "idle"
    /\ nEv < MaxEvents
    /\ nEv' = nEv + 1
    /\ IF rguards = 0
       THEN /\ IF state = "InLobby"
               THEN /\ roster' = ProviderLeave(roster, curr.id)
                    /\ on_lobby_exit' = try_send(on_lobby_exit, [id |-> curr.id])
                    /\ dropLog' = Logged(on_lobby_exit, "exit")
               ELSE UNCHANGED <<roster, on_lobby_exit, dropLog>>
            /\ pending' = Issue(pending, [kind |-> "redirect", lobby |-> l])
            /\ state' = "Joining"
            /\ curr' = [DefaultLobby EXCEPT !.id = l, !.is_host = FALSE]
            /\ UNCHANGED <<pcCb, writerWaiting>>
       ELSE /\ CbParks
            /\ UNCHANGED <<roster, on_lobby_exit, dropLog, pending, state, curr>>
    /\ UNCHANGED <<members, on_lobby_join, on_lobby_msg, on_lobby_change,
                   on_lobby_error, rguards, pcMain, cbEv, appState, lobbyRes,
                   appIsHost, actual, cmd, emitted, lastCall, sent, nNote, castTo>>
    /\ UNCHANGED busVars

\* GameLobbyJoinRequested callback: the user accepted an invite or chose
\* "Join Game" in the provider's own interface
GameLobbyJoinRequested(l) ==
    /\ pcCb = "idle"
    /\ nEv < MaxEvents
    /\ nEv' = nEv + 1
    /\ IF rguards = 0
       THEN /\ IF state # "Joining"
               THEN /\ IF state = "InLobby"
                       THEN /\ roster' = ProviderLeave(roster, curr.id)
                            /\ on_lobby_exit' = try_send(on_lobby_exit, [id |-> curr.id])
                            /\ dropLog' = Logged(on_lobby_exit, "exit")
                       ELSE UNCHANGED <<roster, on_lobby_exit, dropLog>>
                    /\ pending' = Issue(pending, [kind |-> "redirect", lobby |-> l])
                    /\ state' = "Joining"
                    /\ curr' = [DefaultLobby EXCEPT !.id = l, !.is_host = FALSE]
               ELSE UNCHANGED <<roster, on_lobby_exit, dropLog, pending, state, curr>>
            /\ UNCHANGED <<pcCb, writerWaiting>>
       ELSE /\ CbParks
            /\ UNCHANGED <<roster, on_lobby_exit, dropLog, pending, state, curr>>
    /\ UNCHANGED <<members, on_lobby_join, on_lobby_msg, on_lobby_change,
                   on_lobby_error, rguards, pcMain, cbEv, appState, lobbyRes,
                   appIsHost, actual, cmd, emitted, lastCall, sent, nNote, castTo>>
    /\ UNCHANGED busVars

\* convert_chat_entry_type
convert_chat_entry_type(entry) ==
    CASE entry = "Invalid" -> "Invalid"
      [] entry = "ChatMsg" -> "ChatMsg"
      [] entry = "Typing" -> "Typing"
      [] entry = "InviteGame" -> "InviteGame"
      [] entry = "Emote" -> "Emote"
      [] entry = "LeftConversation" -> "LeftConversation"
      [] entry = "Entered" -> "Entered"
      [] entry = "WasKicked" -> "WasKicked"
      [] entry = "WasBanned" -> "WasBanned"
      [] entry = "Disconnected" -> "Disconnected"
      [] entry = "HistoricalChat" -> "HistoricalChat"
      [] entry = "LinkBlocked" -> "LinkBlocked"

\* the chat entries the provider is made to deliver: valid text, and bytes
\* that are not UTF-8
ChatEntries == {[utf8 |-> TRUE, text |-> "hi"], [utf8 |-> FALSE, text |-> ""]}

\* LobbyChatMsg callback, for a message in a lobby the user is a member of
LobbyChatMsg(user, entry, ty) ==
    /\ pcCb = "idle"
    /\ nNote < MaxNotifications
    /\ nNote' = nNote + 1
    /\ \E l \in LobbyIds : Me \in Range(roster[l])
    /\ LET content == IF entry.utf8 THEN entry.text ELSE "!! ERROR !! Not Valid UTF-8"
           item == [content |-> content, user |-> user,
                    kind |-> convert_chat_entry_type(ty)]
       IN /\ on_lobby_msg' = try_send(on_lobby_msg, item)
          /\ dropLog' = Logged(on_lobby_msg, "msg")
          /\ sent' = [sent EXCEPT !.msg = Append(@, item)]
    /\ UNCHANGED <<state, curr, members, on_lobby_join, on_lobby_exit, on_lobby_change,
                   on_lobby_error, rguards, writerWaiting, pcMain, pcCb, cbEv, pending,
                   roster, appState, lobbyRes, appIsHost, actual, cmd, emitted,
                   lastCall, nEv, castTo>>
    /\ UNCHANGED busVars

\* the roster changes the provider is made to report: who changed, who
\* made the change, and how
RosterChanges ==
    {<<Peer, Peer, "Entered">>, <<Peer, Peer, "Left">>, <<Peer, Peer, "Disconnected">>,
     <<Me, Peer, "Kicked">>, <<Peer, Me, "Kicked">>,
     <<Me, Peer, "Banned">>, <<Peer, Me, "Banned">>}

\* LobbyChatUpdate callback, for a change in a lobby l the user is a
\* member of; the provider's member list changes with it (the event's
\* lobby field, which no code reads, is left out)
LobbyChatUpdate(l, ch) ==
    /\ pcCb = "idle"
    /\ nNote < MaxNotifications
    /\ nNote' = nNote + 1
    /\ Me \in Range(roster[l])
    /\ (ch[3] = "Entered") = (ch[1] \notin Range(roster[l]))
    /\ roster' = [roster EXCEPT ![l] = IF ch[3] = "Entered"
                                       THEN Append(@, ch[1])
                                       ELSE Without(@, ch[1])]
    /\ LET item == [user_changed |-> ch[1], making_change |-> ch[2],
                    member_state_change |-> ch[3]]
       IN /\ on_lobby_change' = try_send(on_lobby_change, item)
          /\ dropLog' = Logged(on_lobby_change, "change")
          /\ sent' = [sent EXCEPT !.change = Append(@, item)]
    /\ UNCHANGED <<state, curr, members, on_lobby_join, on_lobby_exit, on_lobby_msg,
                   on_lobby_error, rguards, writerWaiting, pcMain, pcCb, cbEv, pending,
                   appState, lobbyRes, appIsHost, actual, cmd, emitted, lastCall, nEv,
                   castTo>>
    /\ UNCHANGED busVars

\* ------------------------------------------- the bridge (read_backend_events)

\* BackendEvents::read_lobby_change: the OnLobbyChange of a LobbyChatUpdate
OnLobbyChangeOf(ev) ==
    CASE ev.member_state_change = "Entered" -> [tag |-> "Joined", user |-> ev.user_changed]
      [] ev.member_state_change = "Left" -> [tag |-> "Exited", user |-> ev.user_changed]
      [] ev.member_state_change = "Kicked" ->
             [tag |-> "Kicked", target |-> ev.user_changed, executor |-> ev.making_change]
      [] ev.member_state_change = "Banned" ->
             [tag |-> "Banned", target |-> ev.user_changed, executor |-> ev.making_change]
      [] ev.member_state_change = "Disconnected" ->
             [tag |-> "Exited", user |-> ev.user_changed]

WrittenFirst(name, items) ==
    [i \in 1..(IF items = <<>> THEN 0 ELSE 1) |-> [ev |-> name, data |-> items[i]]]

\* what write_batch adds to an event writer for the items of a drain
Written(name, items) == [i \in 1..Len(items) |-> [ev |-> name, data |-> items[i]]]

\* read_backend_events begins with backend.tick(): the InLobby check under
\* a read guard that is held over the member query
read_backend_events ==
    /\ pcMain = "idle"
    /\ emitted' = <<>>
    /\ IF get_if_in_lobby(state, curr) # NoLobby
       THEN /\ rguards' = rguards + 1
            /\ pcMain' = "tick_members"
            /\ UNCHANGED members
       ELSE /\ members' = <<>>
            /\ pcMain' = "drain"
            /\ UNCHANGED rguards
    /\ UNCHANGED <<state, curr, on_lobby_join, on_lobby_exit, on_lobby_msg,
                   on_lobby_change, on_lobby_error, writerWaiting, pcCb, cbEv, pending,
                   roster, appState, lobbyRes, appIsHost, actual, cmd, lastCall, sent,
                   dropLog, nEv, nNote, castTo>>
    /\ UNCHANGED busVars

\* tick(): self.members = self.lobby_members(), which takes the read lock
\* again; a writer parked since the first guard keeps new readers out
tick_lobby_members ==
    /\ pcMain = "tick_members"
    /\ IF writerWaiting
       THEN /\ pcMain' = "tick_blocked_read"
            /\ UNCHANGED <<members, rguards>>
       ELSE /\ members' = lobby_members(state, curr, roster)
            /\ rguards' = rguards - 1
            /\ pcMain' = "drain"
    /\ UNCHANGED <<state, curr, on_lobby_join, on_lobby_exit, on_lobby_msg,
                   on_lobby_change, on_lobby_error, writerWaiting, pcCb, cbEv, pending,
                   roster, appState, lobbyRes, appIsHost, actual, cmd, emitted,
                   lastCall, sent, dropLog, nEv, nNote, castTo>>
    /\ UNCHANGED busVars

\* the five write_batch lines: each channel is drained until empty, in
\* the order join, exit, message, change, error
drain_events ==
    /\ pcMain = "drain"
    /\ emitted' = emitted \o Written("OnLobbyJoin", on_lobby_join)
                           \o Written("OnLobbyExit", on_lobby_exit)
                           \o Written("OnLobbyMessage", on_lobby_msg)
                           \o Written("OnLobbyChange",
                                      [i \in 1..Len(on_lobby_change) |->
                                          OnLobbyChangeOf(on_lobby_change[i])])
                           \o Written("LobbyConnectError", on_lobby_error)
    /\ on_lobby_join' = <<>>
    /\ on_lobby_exit' = <<>>
    /\ on_lobby_msg' = <<>>
    /\ on_lobby_change' = <<>>
    /\ on_lobby_error' = <<>>
    /\ sent' = [c \in {"msg", "change"} |-> <<>>]
    /\ dropLog' = [c \in Channels |-> 0]
    /\ pcMain' = "sync_state"
    /\ UNCHANGED <<state, curr, members, rguards, writerWaiting, pcCb, cbEv, pending,
                   roster, appState, lobbyRes, appIsHost, actual, cmd, lastCall, nEv,
                   nNote, castTo>>
    /\ UNCHANGED busVars

\* let actual = backend.lobby_state(); compared with State<LobbyState>
sync_lobby_state ==
    /\ pcMain = "sync_state"
    /\ actual' = state
    /\ IF state # appState
       THEN pcMain' = "sync_current" /\ UNCHANGED cmd
       ELSE pcMain' = "sync_host" /\ cmd' = [op |-> "none"]
    /\ UNCHANGED <<state, curr, members, on_lobby_join, on_lobby_exit, on_lobby_msg,
                   on_lobby_change, on_lobby_error, rguards, writerWaiting, pcCb, cbEv,
                   pending, roster, appState, lobbyRes, appIsHost, emitted, lastCall,
                   sent, dropLog, nEv, nNote, castTo>>
    /\ UNCHANGED busVars

\* backend.current_lobby(): the InLobby check, under a read guard held
\* over the closure that queries the members
sync_current_lobby ==
    /\ pcMain = "sync_current"
    /\ IF get_if_in_lobby(state, curr) # NoLobby
       THEN /\ rguards' = rguards + 1
            /\ pcMain' = "sync_current_members"
            /\ UNCHANGED cmd
       ELSE /\ cmd' = [op |-> "remove"]
            /\ pcMain' = "sync_host"
            /\ UNCHANGED rguards
    /\ UNCHANGED <<state, curr, members, on_lobby_join, on_lobby_exit, on_lobby_msg,
                   on_lobby_change, on_lobby_error, writerWaiting, pcCb, cbEv, pending,
                   roster, appState, lobbyRes, appIsHost, actual, emitted, lastCall,
                   sent, dropLog, nEv, nNote, castTo>>
    /\ UNCHANGED busVars

\* current_lobby(): curr.others = self.lobby_members(), a second read lock
sync_current_members ==
    /\ pcMain = "sync_current_members"
    /\ IF writerWaiting
       THEN /\ pcMain' = "current_blocked_read"
            /\ UNCHANGED <<cmd, rguards>>
       ELSE /\ cmd' = [op |-> "insert",
                       data |-> [curr EXCEPT !.others = lobby_members(state, curr, roster)]]
            /\ rguards' = rguards - 1
            /\ pcMain' = "sync_host"
    /\ UNCHANGED <<state, curr, members, on_lobby_join, on_lobby_exit, on_lobby_msg,
                   on_lobby_change, on_lobby_error, writerWaiting, pcCb, cbEv, pending,
                   roster, appState, lobbyRes, appIsHost, actual, emitted, lastCall,
                   sent, dropLog, nEv, nNote, castTo>>
    /\ UNCHANGED busVars

\* the CurrentLobby resource after the system: the one the system was
\* given, its members refreshed, unless a command replaces or removes it
ResourceAfter(res, c, others) ==
    CASE c.op = "insert" -> c.data
      [] c.op = "remove" -> NoLobby
      [] OTHER -> IF res = NoLobby THEN NoLobby ELSE [res EXCEPT !.others = others]

\* the rest of the system: the resource's members, the host flag; the
\* commands and the next states take effect before the next frame's pass
sync_is_host ==
    /\ pcMain = "sync_host"
    /\ lobbyRes' = ResourceAfter(lobbyRes, cmd, lobby_members(state, curr, roster))
    /\ appIsHost' = IF lobbyRes = NoLobby THEN FALSE ELSE lobbyRes.is_host
    /\ appState' = actual
    /\ cmd' = [op |-> "none"]
    /\ emitted' = <<>>
    /\ pcMain' = "idle"
    /\ UNCHANGED <<state, curr, members, on_lobby_join, on_lobby_exit, on_lobby_msg,
                   on_lobby_change, on_lobby_error, rguards, writerWaiting, pcCb, cbEv,
                   pending, roster, actual, lastCall, sent, dropLog, nEv, nNote,
                   castTo>>
    /\ UNCHANGED busVars

\* NetSender::broadcast, called by a system of the application between
\* bridge passes: Backend::broadcast_packet sends the buffer to each user
\* of Backend.members
broadcast_packet ==
    /\ pcMain = "idle"
    /\ castTo' = members
    /\ UNCHANGED <<state, curr, members, on_lobby_join, on_lobby_exit, on_lobby_msg,
                   on_lobby_change, on_lobby_error, rguards, writerWaiting, pcMain,
                   pcCb, cbEv, pending, roster, appState, lobbyRes, appIsHost, actual,
                   cmd, emitted, lastCall, sent, dropLog, nEv, nNote>>
    /\ UNCHANGED busVars

\* ------------------------------------------------------- the message bus

\* A u64 is held as its eight bytes by significance: v[k] is the byte
\* worth 256^k.
U64(b7, b6, b5, b4, b3, b2, b1, b0) ==
    [k \in 0..7 |-> CASE k = 7 -> b7 [] k = 6 -> b6 [] k = 5 -> b5 [] k = 4 -> b4
                      [] k = 3 -> b3 [] k = 2 -> b2 [] k = 1 -> b1 [] OTHER -> b0]

\* u64::to_be_bytes: most significant byte first
to_be_bytes(v) == [i \in 1..8 |-> v[8 - i]]
\* u64::from_le_bytes of the first eight bytes of b
from_le_bytes(b) == [k \in 0..7 |-> b[k + 1]]

\* the message types the application may register, and the xxh64 of each
\* type path: fixed 64-bit values, one per name
MsgNames == {"Ping", "Pong"}
Xxh64(name) ==
    IF name = "Ping" THEN U64(1, 2, 3, 4, 5, 6, 7, 8) ELSE U64(9, 9, 9, 9, 9, 9, 9, 9)

\* ciborium on a small unsigned payload: one byte, the value itself,
\* below 24
Payloads == {0, 5}
CborEncode(n) == <<n>>
CborDecode(bytes) ==
    IF Len(bytes) >= 1 /\ bytes[1] < 24
    THEN [ok |-> TRUE, value |-> bytes[1]]
    ELSE [ok |-> FALSE, value |-> 0]

\* NetSender::write_buffer: the id, then the payload
write_buffer(id, message) == to_be_bytes(id) \o CborEncode(message)

\* the length of the slice recv_incoming_packets hands to recv_packet:
\* that of a Vec::with_capacity(1200), which is empty
RecvBufLen == 0

NoKind == [none |-> TRUE]
Lookup(reg, id) == IF id \in DOMAIN reg THEN reg[id] ELSE NoKind

\* BTreeMap::insert
MapInsert(reg, id, msg) ==
    [k \in DOMAIN reg \cup {id} |-> IF k = id THEN msg ELSE reg[k]]

BusIdle ==
    /\ registry = <<>>
    /\ queues = [n \in 1..MaxRegistrations |-> <<>>]
    /\ nReg = 0
    /\ panicked = FALSE
    /\ started = FALSE
    /\ inbox = <<>>
    /\ nPkt = 0
    /\ routed = <<>>
    /\ polled = NoKind
    /\ dispatched = NoKind
    /\ accepted = [n \in 1..MaxRegistrations |-> <<>>]
    /\ taken = [n \in 1..MaxRegistrations |-> <<>>]

\* SkynetAppExt::add_message, its PreStartup system: a channel and a
\* MessageType for the type, MessageRegistry::insert
add_message(name) ==
    /\ ~panicked
    /\ ~started
    /\ nReg < MaxRegistrations
    /\ nReg' = nReg + 1
    /\ LET msg == [name |-> name, id |-> Xxh64(name), tx |-> nReg + 1]
       IN /\ registry' = MapInsert(registry, msg.id, msg)
          /\ panicked' = (Lookup(registry, msg.id) # NoKind)
    /\ UNCHANGED <<queues, started, inbox, nPkt, sizeMode, routed, polled, dispatched,
                   accepted, taken>>
    /\ UNCHANGED sessionVars

\* the startup schedules are over
startup_done ==
    /\ ~panicked
    /\ ~started
    /\ started' = TRUE
    /\ UNCHANGED <<registry, queues, nReg, panicked, inbox, nPkt, sizeMode, routed,
                   polled, dispatched, accepted, taken>>
    /\ UNCHANGED sessionVars

\* a peer's NetSender::send to the local user, buffered by the transport
PeerSend(from, name, message) ==
    /\ nPkt < MaxPackets
    /\ nPkt' = nPkt + 1
    /\ inbox' = Append(inbox, [from |-> from, kind |-> name,
                               data |-> write_buffer(Xxh64(name), message)])
    /\ UNCHANGED <<registry, queues, nReg, panicked, started, sizeMode, routed, polled,
                   dispatched, accepted, taken>>
    /\ UNCHANGED sessionVars

\* the size the receive buffer is allocated for, the transport's ceiling
PacketCeiling == 1200
\* the lengths of the Vec<u8> messages the peer sends
BulkLengths == {PacketCeiling}

\* ciborium on a Vec<u8> of n zero bytes: the array header, then one byte
\* for each element
CborEncodeZeros(n) ==
    (IF n < 24 THEN <<128 + n>>
     ELSE IF n < 256 THEN <<152, n>>
     ELSE <<153, n \div 256, n % 256>>) \o [i \in 1..n |-> 0]

\* NetSender::send of such a message: write_buffer, then send_packet with
\* the whole buffer
PeerSendBulk(from, name, n) ==
    /\ nPkt < MaxPackets
    /\ nPkt' = nPkt + 1
    /\ inbox' = Append(inbox, [from |-> from, kind |-> name,
                               data |-> to_be_bytes(Xxh64(name)) \o CborEncodeZeros(n)])
    /\ UNCHANGED <<registry, queues, nReg, panicked, started, sizeMode, routed, polled,
                   dispatched, accepted, taken>>
    /\ UNCHANGED sessionVars

\* bytes that no write_buffer produced: a packet shorter than an id, and an
\* id followed by bytes that are not a CBOR unsigned
RawPackets == {<<1, 2, 3>>, to_be_bytes(Xxh64("Ping")) \o <<30>>}

\* a peer hands such bytes to the transport (Backend::send_packet)
PeerSendRaw(from, bytes) ==
    /\ nPkt < MaxPackets
    /\ nPkt' = nPkt + 1
    /\ inbox' = Append(inbox, [from |-> from, kind |-> "raw", data |-> bytes])
    /\ UNCHANGED <<registry, queues, nReg, panicked, started, sizeMode, routed, polled,
                   dispatched, accepted, taken>>
    /\ UNCHANGED sessionVars

IncomingTxSendEvict(qs, tx, payload, sender) ==
    LET d == CborDecode(payload)
        msg == [sender |-> sender, payload |-> d.value]
    IN IF ~d.ok THEN [queues |-> qs, outcome |-> "malformed"]
       ELSE IF IsFull(qs[tx])
       THEN [queues |-> [qs EXCEPT ![tx] = Append(Tail(@), msg)],
             outcome |-> "delivered"]
       ELSE [queues |-> [qs EXCEPT ![tx] = try_send(@, msg)], outcome |-> "delivered"]

IncomingTxSendAll(qs, tx, payload, sender) ==
    LET d == CborDecode(payload)
    IN IF ~d.ok THEN [queues |-> qs, outcome |-> "malformed"]
       ELSE IF IsFull(qs[tx]) THEN [queues |-> qs, outcome |-> "queue_full"]
       ELSE [queues |-> [n \in DOMAIN qs |-> try_send(qs[n], [sender |-> sender,
                                                                payload |-> d.value])],
             outcome |-> "delivered"]

\* IncomingTx::send: decode, then try_send into the type's queue
IncomingTx_send(qs, tx, payload, sender) ==
    LET d == CborDecode(payload)
    IN IF ~d.ok THEN [queues |-> qs, outcome |-> "malformed"]
       ELSE IF IsFull(qs[tx]) THEN [queues |-> qs, outcome |-> "queue_full"]
       ELSE [queues |-> [qs EXCEPT ![tx] = try_send(@, [sender |-> sender,
                                                          payload |-> d.value])],
             outcome |-> "delivered"]

MessageRegistrySendFirst(reg, qs, msg_id, payload, sender) ==
    IF Lookup(reg, msg_id) = NoKind
    THEN IncomingTx_send(qs, 1, payload, sender)
    ELSE IncomingTx_send(qs, reg[msg_id].tx, payload, sender)

\* MessageRegistry::send
MessageRegistry_send(reg, qs, msg_id, payload, sender) ==
    IF Lookup(reg, msg_id) = NoKind
    THEN [queues |-> qs, outcome |-> "unknown"]
    ELSE IncomingTx_send(qs, reg[msg_id].tx, payload, sender)

\* recv_packet into a slice of RecvBufLen bytes: the bytes copied and the
\* length reported, which is the number copied or, with an SDK that
\* reports the packet's own size, that size
recv_packet(pkt, mode) ==
    [user |-> pkt.from,
     buf |-> Take(pkt.data, RecvBufLen),
     len |-> IF mode = "copied" /\ RecvBufLen < Len(pkt.data)
             THEN RecvBufLen ELSE Len(pkt.data)]

RoutePacketUnchecked(reg, qs, pkt, mode) ==
    LET r == recv_packet(pkt, mode)
    IN IF Len(r.buf) < 8 THEN [queues |-> qs, outcome |-> "panic"]
       ELSE MessageRegistry_send(reg, qs, from_le_bytes(r.buf),
                                 SubSeq(r.buf, 9, Len(r.buf)), r.user)

\* one turn of the loop of recv_incoming_packets; indexing the buffer past
\* its length panics
RoutePacket(reg, qs, pkt, mode) ==
    LET r == recv_packet(pkt, mode)
    IN IF r.len < 8 THEN [queues |-> qs, outcome |-> "too_small"]
       ELSE IF Len(r.buf) < 8 THEN [queues |-> qs, outcome |-> "panic"]
       ELSE MessageRegistry_send(reg, qs, from_le_bytes(r.buf),
                                 SubSeq(r.buf, 9, Len(r.buf)), r.user)

\* the loop: the packets in order, until none is left or one panics
RECURSIVE RouteAll(_, _, _, _, _)
RouteAll(reg, qs, pkts, mode, log) ==
    IF pkts = <<>> THEN [queues |-> qs, inbox |-> pkts, log |-> log]
    ELSE LET r == RoutePacket(reg, qs, Head(pkts), mode)
             entry == [from |-> Head(pkts).from, kind |-> Head(pkts).kind,
                       size |-> Len(Head(pkts).data), outcome |-> r.outcome]
         IN IF r.outcome = "panic"
            THEN [queues |-> r.queues, inbox |-> Tail(pkts), log |-> Append(log, entry)]
            ELSE RouteAll(reg, r.queues, Tail(pkts), mode, Append(log, entry))

\* the messages each queue has accepted, after sends that took the queues
\* from qs to qs2
Grown(acc, qs, qs2) ==
    [n \in DOMAIN acc |-> acc[n] \o SubSeq(qs2[n], Len(qs[n]) + 1, Len(qs2[n]))]

\* recv_incoming_packets
recv_incoming_packets ==
    /\ ~panicked
    /\ started
    /\ LET r == RouteAll(registry, queues, inbox, sizeMode, <<>>)
       IN /\ queues' = r.queues
          /\ inbox' = r.inbox
          /\ routed' = r.log
          /\ panicked' = (\E i \in 1..Len(r.log) : r.log[i].outcome = "panic")
          /\ accepted' = Grown(accepted, queues, r.queues)
    /\ UNCHANGED <<registry, nReg, started, nPkt, sizeMode, polled, dispatched, taken>>
    /\ UNCHANGED sessionVars

\* the ids and payload bytes MessageRegistry::send is called with: the ids
\* of the two types and one that no type has, a CBOR unsigned and a byte
\* that is not one
DispatchIds == {Xxh64(n) : n \in MsgNames} \cup {from_le_bytes(to_be_bytes(Xxh64("Ping")))}
PayloadBytes == {<<0>>, <<5>>, <<30>>}

\* MessageRegistry::send for the id and payload of a received packet
dispatch(msg_id, payload, sender) ==
    /\ ~panicked
    /\ started
    /\ nPkt < MaxPackets
    /\ nPkt' = nPkt + 1
    /\ LET r == MessageRegistry_send(registry, queues, msg_id, payload, sender)
       IN /\ queues' = r.queues
          /\ dispatched' = [id |-> msg_id, outcome |-> r.outcome]
          /\ accepted' = Grown(accepted, queues, r.queues)
    /\ UNCHANGED <<registry, nReg, panicked, started, inbox, sizeMode, routed, polled,
                   taken>>
    /\ UNCHANGED sessionVars

RecvPeek(name) ==
    /\ ~panicked
    /\ started
    /\ Lookup(registry, Xxh64(name)) # NoKind
    /\ LET tx == registry[Xxh64(name)].tx
       IN IF queues[tx] = <<>>
          THEN /\ polled' = [name |-> name, none |-> TRUE]
               /\ UNCHANGED <<queues, taken>>
          ELSE /\ polled' = [name |-> name, none |-> FALSE, message |-> Head(queues[tx])]
               /\ taken' = [taken EXCEPT ![tx] = Append(@, Head(queues[tx]))]
               /\ UNCHANGED queues
    /\ UNCHANGED <<registry, nReg, panicked, started, inbox, nPkt, sizeMode, routed,
                   dispatched, accepted>>
    /\ UNCHANGED sessionVars

\* NetReceiver::recv for a registered type
NetReceiver_recv(name) ==
    /\ ~panicked
    /\ started
    /\ Lookup(registry, Xxh64(name)) # NoKind
    /\ LET tx == registry[Xxh64(name)].tx
       IN IF queues[tx] = <<>>
          THEN /\ polled' = [name |-> name, none |-> TRUE]
               /\ UNCHANGED <<queues, taken>>
          ELSE /\ polled' = [name |-> name, none |-> FALSE, message |-> Head(queues[tx])]
               /\ taken' = [taken EXCEPT ![tx] = Append(@, Head(queues[tx]))]
               /\ queues' = [queues EXCEPT ![tx] = Tail(@)]
    /\ UNCHANGED <<registry, nReg, panicked, started, inbox, nPkt, sizeMode, routed,
                   dispatched, accepted>>
    /\ UNCHANGED sessionVars

\* ------------------------------------------------------ specifications

SessionNext ==
    \/ \E vis \in RequestedVisibilities, mx \in MemberCaps : create_lobby(vis, mx)
    \/ \E l \in JoinTargets : join_lobby(l)
    \/ exit_lobby
    \/ exit_lobby_send
    \/ exit_lobby_write
    \/ \E r \in Requests, result \in CreateFailures : LobbyCreatedFailed(r, result)
    \/ \E r \in Requests, resp \in EnterFailures : LobbyEnterFailed(r, resp)
    \/ \E r \in Requests, l \in LobbyIds, lim \in LimitAnswers :
           LobbyEnterSend(r, l, lim)
    \/ LobbyEnterWrite
    \/ \E l \in InviteTargets : GameLobbyJoinRequested(l)
    \/ read_backend_events
    \/ tick_lobby_members
    \/ drain_events
    \/ sync_lobby_state
    \/ sync_current_lobby
    \/ sync_current_members
    \/ sync_is_host

EventsNext ==
    \/ \E l \in JoinTargets : join_lobby(l)
    \/ \E r \in Requests, l \in LobbyIds, lim \in LimitAnswers :
           LobbyEnterSend(r, l, lim)
    \/ LobbyEnterWrite
    \/ \E e \in ChatEntries : LobbyChatMsg(Peer, e, "ChatMsg")
    \/ \E l \in LobbyIds, ch \in RosterChanges : LobbyChatUpdate(l, ch)
    \/ read_backend_events
    \/ tick_lobby_members
    \/ drain_events
    \/ sync_lobby_state
    \/ sync_current_lobby
    \/ sync_current_members
    \/ sync_is_host

BusNext ==
    \/ \E name \in MsgNames : add_message(name)
    \/ startup_done
    \/ \E name \in MsgNames, m \in Payloads : PeerSend(Peer, name, m)
    \/ \E n \in BulkLengths : PeerSendBulk(Peer, "Ping", n)
    \/ \E bytes \in RawPackets : PeerSendRaw(Peer, bytes)
    \/ recv_incoming_packets
    \/ \E name \in MsgNames : NetReceiver_recv(name)

\* the lobby machine, with the message bus at rest
Init == SessionInit /\ BusIdle /\ sizeMode = "copied"
Next == SessionNext
Spec == Init /\ [][Next]_vars

\* a joined lobby's chat and roster notifications and the bridge, with
\* the message bus at rest
SpecEvents == Init /\ [][EventsNext]_vars

\* the same with joins that the provider refuses
OutcomesNext ==
    \/ EventsNext
    \/ \E r \in Requests, resp \in EnterFailures : LobbyEnterFailed(r, resp)
SpecOutcomes == Init /\ [][OutcomesNext]_vars

\* joins asked for by the application and by the provider's join
\* requests, all of which the provider grants, and the bridge
InviteNext ==
    \/ \E l \in JoinTargets : join_lobby(l)
    \/ \E l \in InviteTargets : GameLobbyJoinRequested(l)
    \/ \E r \in Requests, l \in LobbyIds, lim \in LimitAnswers :
           LobbyEnterSend(r, l, lim)
    \/ LobbyEnterWrite
    \/ read_backend_events
    \/ tick_lobby_members
    \/ drain_events
    \/ sync_lobby_state
    \/ sync_current_lobby
    \/ sync_current_members
    \/ sync_is_host
SpecInvite == Init /\ [][InviteNext]_vars

\* a lobby that a peer enters, the provider's join requests, the bridge,
\* and broadcasts of the application in between
BroadcastNext ==
    \/ \E l \in JoinTargets : join_lobby(l)
    \/ \E l \in InviteTargets : GameLobbyJoinRequested(l)
    \/ \E r \in Requests, l \in LobbyIds, lim \in LimitAnswers :
           LobbyEnterSend(r, l, lim)
    \/ LobbyEnterWrite
    \/ \E l \in JoinTargets : LobbyChatUpdate(l, <<Peer, Peer, "Entered">>)
    \/ read_backend_events
    \/ tick_lobby_members
    \/ drain_events
    \/ sync_lobby_state
    \/ sync_current_lobby
    \/ sync_current_members
    \/ sync_is_host
    \/ broadcast_packet
SpecBroadcast == Init /\ [][BroadcastNext]_vars

\* the message bus, with the lobby machine at rest
InitBus == SessionInit /\ BusIdle /\ sizeMode \in {"copied", "full"}
NextBus == BusNext
SpecBus == InitBus /\ [][NextBus]_vars

\* the registry and the typed queues under direct calls of
\* MessageRegistry::send
DispatchNext ==
    \/ \E name \in MsgNames : add_message(name)
    \/ startup_done
    \/ \E id \in DispatchIds, b \in PayloadBytes : dispatch(id, b, Peer)
    \/ \E name \in MsgNames : NetReceiver_recv(name)
SpecDispatch == Init /\ [][DispatchNext]_vars

\* ------------------------------------------------------------ properties

\* a step in which the application calls create_lobby or join_lobby
Requesting ==
    \/ \E vis \in RequestedVisibilities, mx \in MemberCaps : create_lobby(vis, mx)
    \/ \E l \in JoinTargets : join_lobby(l)

\* the provider holds a create or join it has not reported the outcome of
Outstanding == \E r \in Requests : pending[r] > 0

\* C1: at most one create/join attempt is outstanding. An accepted
\* create_lobby or join_lobby leaves the state other than None, and a
\* create_lobby or join_lobby called while the provider has yet to report
\* on an earlier attempt returns false and makes no provider call.
C1_OneAttemptOutstanding ==
    [][Requesting =>
          /\ lastCall'.ret = "true" => state' # "None"
          /\ Outstanding => (lastCall'.ret = "false" /\ pending' = pending)]_vars

\* C2: whenever the state is not None (Joining or InLobby), a call of
\* create_lobby or join_lobby returns false, leaves the lobby state and the
\* lobby data as they were and makes no provider call.
C2_RejectedWhenNotIdle ==
    [][(Requesting /\ state # "None") =>
          (lastCall'.ret = "false" /\ UNCHANGED <<state, curr, members, pending>>)]_vars

\* C2, its case: create_lobby or join_lobby has just been refused in a
\* state that is Joining or InLobby
C2_Refused ==
    /\ lastCall.op \in {"create", "join"}
    /\ lastCall.ret = "false"
    /\ state \in {"Joining", "InLobby"}

\* C3: when the LobbyEnter callback has recorded the provider's success,
\* the state is InLobby, the lobby id is the entered lobby's, and is_host
\* is true for the answer to a create and false for the answer to a join.
C3_HostAfterSuccess ==
    [][(pcCb = "enter_write" /\ pcCb' = "idle") =>
          /\ state' = "InLobby"
          /\ curr'.id = cbEv.lobby
          /\ curr'.is_host = (cbEv.kind = "create")]_vars

\* C4: exit_lobby called while InLobby returns true with the state None
\* (so current_lobby() is None), having sent an OnLobbyExit for the lobby
\* and called the provider's leave_lobby for it.
C4_ExitLeavesLobby ==
    [][(pcMain = "exit_write" /\ pcMain' # "exit_write") =>
          /\ lastCall'.ret = "true"
          /\ state' = "None"
          /\ get_if_in_lobby(state', curr') = NoLobby
          /\ on_lobby_exit # <<>>
          /\ on_lobby_exit[Len(on_lobby_exit)] = [id |-> curr.id]
          /\ Me \notin Range(roster[curr.id])]_vars

\* C5: create_lobby, join_lobby and exit_lobby always return: the
\* application thread never waits for the write lock behind its own read
\* guard, and never waits for space in the exit channel.
C5_RequestsReturn ==
    /\ pcMain # "exit_blocked_write"
    /\ ~(pcMain = "exit_send" /\ IsFull(on_lobby_exit))

\* C6: add_message for a type whose id is already in the registry is a
\* fatal error that leaves the registry as it was: the id still maps to
\* the type registered first.
C6_DuplicateLeavesRegistry ==
    [][(\E name \in MsgNames :
            add_message(name) /\ Lookup(registry, Xxh64(name)) # NoKind) =>
          (panicked' /\ registry' = registry)]_vars

\* C7: the id write_buffer puts at the head of a packet is the id the
\* router reads from it, so a packet sent for a registered type is
\* delivered to that type's queue (or dropped only because the queue is
\* full), never discarded as too small or unknown, and never a panic.
C7_IdRoundTrip ==
    /\ \A i \in 1..Len(inbox) :
           inbox[i].kind \in MsgNames =>
               from_le_bytes(inbox[i].data) = Xxh64(inbox[i].kind)
    /\ \A i \in 1..Len(routed) :
           (/\ routed[i].kind \in MsgNames
            /\ Lookup(registry, Xxh64(routed[i].kind)) # NoKind) =>
               routed[i].outcome \in {"delivered", "queue_full"}

\* the OnLobbyChange events of a list of written events that tell the
\* local user of being kicked or banned
RemovalsOfMe(evs) ==
    {i \in 1..Len(evs) : /\ evs[i].ev = "OnLobbyChange"
                         /\ evs[i].data.tag \in {"Kicked", "Banned"}
                         /\ evs[i].data.target = Me}

\* C8: when the bridge pass that emits Kicked or Banned with the local
\* user as the target comes to its end, the lobby state is None.
C8_KickedBecomesIdle ==
    (pcMain = "sync_host" /\ RemovalsOfMe(emitted) # {}) => state = "None"

\* the data of the events of one kind among written events
DataOf(name, evs) ==
    LET mine == SelectSeq(evs, LAMBDA e : e.ev = name)
    IN [i \in 1..Len(mine) |-> mine[i].data]

\* C9: a channel holds the first ChannelSize items sent since the last
\* drain, in the order sent; each later send is dropped and logged; the
\* drain delivers what the channel holds in that order and leaves the
\* channel empty, so a dropped item is never delivered.
C9_FirstNInOrder ==
    /\ [](/\ on_lobby_msg = Take(sent.msg, ChannelSize)
          /\ on_lobby_change = Take(sent.change, ChannelSize)
          /\ dropLog["msg"] = Len(sent.msg) - Len(on_lobby_msg)
          /\ dropLog["change"] = Len(sent.change) - Len(on_lobby_change))
    /\ [][(pcMain = "drain" /\ pcMain' # "drain") =>
             /\ DataOf("OnLobbyMessage", emitted') = Take(sent.msg, ChannelSize)
             /\ DataOf("OnLobbyChange", emitted') =
                    [i \in 1..Len(Take(sent.change, ChannelSize)) |->
                        OnLobbyChangeOf(sent.change[i])]
             /\ on_lobby_msg' = <<>>
             /\ on_lobby_change' = <<>>]_vars

\* C9, its case: more chat messages than the channel holds have been sent
\* since the last drain, the channel is full and a drop has been logged
C9_Overflowed ==
    /\ Len(sent.msg) > ChannelSize
    /\ Len(on_lobby_msg) = ChannelSize
    /\ dropLog["msg"] >= 1

\* C10: no producer of an event channel waits on a full channel, the
\* exit event of exit_lobby included.
C10_ProducersNeverBlock == ~(pcMain = "exit_send" /\ Len(on_lobby_exit) >= ChannelSize)

\* C11: in every bridge pass the join events and the connect errors are
\* written before any chat-message or roster-change event of that pass.
C11_OutcomesBeforeRoster ==
    \A i, j \in 1..Len(emitted) :
        (/\ emitted[i].ev \in {"OnLobbyJoin", "LobbyConnectError"}
         /\ emitted[j].ev \in {"OnLobbyMessage", "OnLobbyChange"}) => i < j

\* C12: a packet shorter than 8 bytes is discarded by the router; when
\* every buffered packet is that short, a run of the router changes no
\* typed queue and does not panic.
C12_ShortPacketsDiscarded ==
    /\ [](\A i \in 1..Len(routed) :
              routed[i].size < 8 => routed[i].outcome = "too_small")
    /\ [][(recv_incoming_packets /\ \A i \in 1..Len(inbox) : Len(inbox[i].data) < 8) =>
             (queues' = queues /\ ~panicked' /\ inbox' = <<>>)]_vars

\* C12, its case: the router has discarded a packet of fewer than 8 bytes
\* whose true size the transport reported
C12_ShortSeen ==
    /\ sizeMode = "full"
    /\ \E i \in 1..Len(routed) : routed[i].size < 8 /\ routed[i].outcome = "too_small"

\* C13: MessageRegistry::send for an id that is not in the registry reports
\* the unknown message and returns, with the registry and every typed
\* queue as they were.
C13_UnknownIdLeavesAll ==
    [][(\E id \in DispatchIds, b \in PayloadBytes :
            dispatch(id, b, Peer) /\ Lookup(registry, id) = NoKind) =>
          /\ dispatched'.outcome = "unknown"
          /\ registry' = registry
          /\ queues' = queues
          /\ ~panicked']_vars

\* C13, its case: with a type registered, a send for an id of no type has
\* been reported unknown
C13_UnknownSeen ==
    /\ registry # <<>>
    /\ dispatched # NoKind
    /\ Lookup(registry, dispatched.id) = NoKind
    /\ dispatched.outcome = "unknown"

\* a buffered packet that write_buffer made for a registered type
WellFormed(reg, pkt) == pkt.kind \in MsgNames /\ Lookup(reg, Xxh64(pkt.kind)) # NoKind

\* C14: a bad packet does not halt a run of the router: a well-formed
\* packet buffered after bad ones is still processed in that run and
\* reaches its typed queue (or finds it full).
C14_BadPacketsDoNotHalt ==
    [][recv_incoming_packets =>
          \A i \in 1..Len(inbox) :
              (/\ WellFormed(registry, inbox[i])
               /\ \E j \in 1..(i - 1) : ~WellFormed(registry, inbox[j])) =>
                  /\ i <= Len(routed')
                  /\ routed'[i].outcome \in {"delivered", "queue_full"}]_vars

\* C15: no packet longer than the transport's ceiling is handed to the
\* provider by send or broadcast.
C15_NoPacketAboveCeiling == \A i \in 1..Len(inbox) : Len(inbox[i].data) <= PacketCeiling

\* a step in which a callback takes the provider's report that a create or
\* a join failed
FailureReported ==
    \/ \E r \in Requests, result \in CreateFailures : LobbyCreatedFailed(r, result)
    \/ \E r \in Requests, resp \in EnterFailures : LobbyEnterFailed(r, resp)

\* C16: a failure the provider reports for a create or join sets the state
\* to None, queues a LobbyConnectError that the next bridge pass emits, and
\* starts no new attempt.
C16_FailuresSurface ==
    /\ [][(FailureReported /\ rguards = 0) =>
             /\ state' = "None"
             /\ Len(on_lobby_error') = Len(on_lobby_error) + 1
             /\ \A r \in Requests : pending'[r] <= pending[r]]_vars
    /\ [][(pcMain = "drain" /\ pcMain' # "drain") =>
             DataOf("LobbyConnectError", emitted') = on_lobby_error]_vars

\* C17: while the state is None (or Joining) neither current_lobby() nor
\* lobby_members() shows anything of a lobby, whatever the lobby data
\* holds: the check of current_lobby() finds no lobby and the bridge
\* removes the CurrentLobby resource.
C17_IdleHidesLobby ==
    /\ [](state # "InLobby" =>
              /\ get_if_in_lobby(state, curr) = NoLobby
              /\ lobby_members(state, curr, roster) = <<>>)
    /\ [][(pcMain = "sync_current" /\ pcMain' # "sync_current" /\ state # "InLobby") =>
             cmd'.op = "remove"]_vars

\* C17, its case: current_lobby() has answered None in the state None
\* with the data of an earlier lobby still stored
C17_StaleDataHidden ==
    /\ pcMain = "sync_host"
    /\ cmd.op = "remove"
    /\ state = "None"
    /\ curr.id \in LobbyIds

\* C18: at the end of a bridge pass, if the state is InLobby the cached
\* member list and the member list of the CurrentLobby resource are the
\* provider's list for the current lobby without the local user, and if
\* the state is not InLobby the cached member list is empty.
C18_MembersFreshAtEndOfPass ==
    [][(pcMain = "sync_host" /\ pcMain' = "idle") =>
          IF state = "InLobby"
          THEN /\ members = MembersOf(roster, curr.id)
               /\ lobbyRes' # NoLobby
               /\ lobbyRes'.others = MembersOf(roster, curr.id)
          ELSE members = <<>>]_vars

\* C19: the GameLobbyJoinRequested callback, called while the state is
\* InLobby, leaves the current lobby at the provider, sends an OnLobbyExit
\* for it, asks the provider to join the requested lobby and makes the
\* state Joining with that lobby's id and is_host false, so that the old
\* lobby is no longer reported as current.
C19_RedirectLeavesFirst ==
    [][\A l \in InviteTargets :
           (GameLobbyJoinRequested(l) /\ state = "InLobby") =>
               /\ Me \notin Range(roster'[curr.id])
               /\ on_lobby_exit' = Append(on_lobby_exit, [id |-> curr.id])
               /\ pending' = Issue(pending, [kind |-> "redirect", lobby |-> l])
               /\ state' = "Joining"
               /\ curr'.id = l
               /\ curr'.is_host = FALSE
               /\ get_if_in_lobby(state', curr') = NoLobby]_vars

\* C20: every message accepted into a typed queue is returned by
\* NetReceiver::recv of its type at most once and in the order of dispatch:
\* at all times the messages accepted for a type are exactly those already
\* returned followed by those still queued; a recv on a non-empty queue
\* returns its head and removes it, and a recv on an empty queue returns
\* None and leaves the queue alone.
C20_PolledOnceInOrder ==
    /\ [](\A t \in DOMAIN queues : accepted[t] = taken[t] \o queues[t])
    /\ [][\A n \in MsgNames :
              NetReceiver_recv(n) =>
                  LET tx == registry[Xxh64(n)].tx
                  IN IF queues[tx] = <<>>
                     THEN polled'.none /\ queues' = queues
                     ELSE /\ ~polled'.none
                          /\ polled'.message = Head(queues[tx])
                          /\ queues' = [queues EXCEPT ![tx] = Tail(@)]]_vars

\* Two different messages of one type were returned, and a later recv
\* found the queue empty.
C20_DrainedInOrder ==
    \E t \in DOMAIN queues :
        /\ Len(taken[t]) >= 2
        /\ taken[t][1] # taken[t][2]
        /\ accepted[t] = taken[t]
        /\ polled.none

\* C21: exit_lobby called while the state is not InLobby (None or Joining)
\* returns false and changes nothing: the provider's member lists, the
\* exit channel, the state, the lobby data and the lock are as before and
\* the application thread is free again.
C21_ExitRefusedOutsideLobby ==
    [][(exit_lobby /\ state # "InLobby") =>
          /\ lastCall' = [op |-> "exit", ret |-> "false"]
          /\ pcMain' = "idle"
          /\ UNCHANGED <<state, curr, roster, pending, on_lobby_exit, rguards,
                         members>>]_vars

\* exit_lobby has returned false while a join was pending
C21_ExitRefusedWhileJoining ==
    /\ lastCall = [op |-> "exit", ret |-> "false"]
    /\ state = "Joining"
    /\ pcMain = "idle"

\* C22: the application thread's nested reads of the lobby lock always
\* complete: tick() and current_lobby(), which call lobby_members() while
\* their own read guard is held, never end up waiting for the lock,
\* whatever the callback thread does in between.
C22_NestedReadsComplete ==
    pcMain \notin {"tick_blocked_read", "current_blocked_read"}

\* C23: the drain of a bridge pass can always be taken and empties the
\* five channels: after it every channel is empty, and the events written
\* are, for each channel, exactly the items the channel held, one event
\* per item, in the channel's order.
C23_DrainExhaustive ==
    /\ [](pcMain = "drain" => ENABLED drain_events)
    /\ [][drain_events =>
             /\ on_lobby_join' = <<>>
             /\ on_lobby_exit' = <<>>
             /\ on_lobby_msg' = <<>>
             /\ on_lobby_change' = <<>>
             /\ on_lobby_error' = <<>>
             /\ DataOf("OnLobbyJoin", emitted') = on_lobby_join
             /\ DataOf("OnLobbyExit", emitted') = on_lobby_exit
             /\ DataOf("OnLobbyMessage", emitted') = on_lobby_msg
             /\ DataOf("OnLobbyChange", emitted') =
                    [i \in 1..Len(on_lobby_change) |->
                        OnLobbyChangeOf(on_lobby_change[i])]
             /\ DataOf("LobbyConnectError", emitted') = on_lobby_error
             /\ Len(emitted') = Len(on_lobby_join) + Len(on_lobby_exit)
                                + Len(on_lobby_msg) + Len(on_lobby_change)
                                + Len(on_lobby_error)]_vars

\* a drain has just written two different items of one channel and an
\* item of another, and left all channels empty
C23_DrainedSeveral ==
    /\ pcMain = "sync_state"
    /\ Len(DataOf("OnLobbyMessage", emitted)) = 2
    /\ DataOf("OnLobbyMessage", emitted)[1] # DataOf("OnLobbyMessage", emitted)[2]
    /\ DataOf("OnLobbyJoin", emitted) # <<>>
    /\ on_lobby_join = <<>> /\ on_lobby_msg = <<>> /\ on_lobby_change = <<>>
    /\ on_lobby_exit = <<>> /\ on_lobby_error = <<>>

\* C24: MessageRegistry::send with a registered id and a decodable payload,
\* when the queue of the kind registered under that id has room, appends
\* one message with that sender and the decoded payload to that queue and
\* leaves every other queue and the registry as they were.
C24_DispatchAppendsOne ==
    [][\A id \in DispatchIds, b \in PayloadBytes :
           (/\ dispatch(id, b, Peer)
            /\ Lookup(registry, id) # NoKind
            /\ CborDecode(b).ok
            /\ ~IsFull(queues[registry[id].tx])) =>
               /\ queues' = [queues EXCEPT ![registry[id].tx] =
                                Append(@, [sender |-> Peer,
                                           payload |-> CborDecode(b).value])]
               /\ registry' = registry]_vars

\* with two kinds registered, a message was delivered to the queue of one
\* of them while the other's queue holds a message of its own
C24_DeliveredToOwnQueue ==
    /\ Cardinality(DOMAIN registry) = 2
    /\ dispatched # NoKind
    /\ dispatched.outcome = "delivered"
    /\ \E k1, k2 \in DOMAIN registry :
           /\ k1 # k2
           /\ Len(queues[registry[k1].tx]) = 2
           /\ Len(queues[registry[k2].tx]) = 1

\* C25: every buffered packet of 8 to PacketCeiling bytes is read in full
\* by the router: recv_packet copies all its bytes and reports its length,
\* and the packet is neither discarded as too small nor the cause of a
\* panic.
C25_PacketsReadInFull ==
    [][recv_incoming_packets =>
          \A i \in 1..Len(inbox) :
              (8 <= Len(inbox[i].data) /\ Len(inbox[i].data) <= PacketCeiling) =>
                  LET r == recv_packet(inbox[i], sizeMode)
                  IN /\ r.len = Len(inbox[i].data)
                     /\ r.buf = inbox[i].data
                     /\ i <= Len(routed') =>
                            routed'[i].outcome \notin {"too_small", "panic"}]_vars

\* C26: a GameLobbyJoinRequested callback that finds the state Joining
\* does nothing: the provider's member lists and requests, the exit
\* channel, the state and the lobby data with the pending target are
\* unchanged.
C26_RequestIgnoredWhileJoining ==
    [][\A l \in InviteTargets :
           (GameLobbyJoinRequested(l) /\ state = "Joining") =>
               UNCHANGED <<state, curr, roster, pending, on_lobby_exit, dropLog,
                           pcCb>>]_vars

\* two join requests have been reported, the application has made no
\* request, the provider has granted no join and no bridge pass has seen
\* a state other than None: the second request found the state Joining
C26_RequestSeenWhileJoining ==
    /\ state = "Joining"
    /\ nEv = 2
    /\ lastCall.op = "none"
    /\ appState = "None"
    /\ pcMain = "idle"
    /\ pcCb = "idle"
    /\ on_lobby_join = <<>>
    /\ on_lobby_exit = <<>>
    /\ \A r \in Requests : pending[r] = (IF r.kind = "redirect" /\ r.lobby = curr.id
                                         THEN 1 ELSE 0)

\* C27: whenever the state leaves InLobby, the provider's leave_lobby has
\* been called for the lobby and one OnLobbyExit with its id has been sent:
\* either by exit_lobby, which does both before its state write, or in the
\* step of the callback that changes the state.
C27_ExitAnnounced ==
    [][(state = "InLobby" /\ state' # "InLobby") =>
          \/ pcMain = "exit_write" /\ pcMain' = "idle"
          \/ /\ roster' = ProviderLeave(roster, curr.id)
             /\ on_lobby_exit' = Append(on_lobby_exit, [id |-> curr.id])]_vars

\* C28: a bridge pass that has written an OnLobbyJoin reads, in its
\* backend.lobby_state() that follows, the state InLobby, and the lobby
\* entered is the current one.
C28_JoinEventAfterState ==
    [][(sync_lobby_state /\ DataOf("OnLobbyJoin", emitted) # <<>>) =>
          LET joins == DataOf("OnLobbyJoin", emitted)
          IN /\ actual' = "InLobby"
             /\ curr.id = joins[Len(joins)].id]_vars

\* C29: at the end of a bridge pass that read the state InLobby, with the
\* state still InLobby and the application's previous state InLobby too,
\* the CurrentLobby resource exists and has the id and the host flag of
\* the backend's current lobby.
C29_SnapshotFollowsLobby ==
    [][(sync_is_host /\ actual = "InLobby" /\ state = "InLobby"
                     /\ appState = "InLobby") =>
          /\ lobbyRes' # NoLobby
          /\ lobbyRes'.id = curr.id
          /\ lobbyRes'.is_host = curr.is_host]_vars

\* C30: broadcast_packet sends only to members of the lobby the user is in
\* at that moment: to nobody when the state is not InLobby, and otherwise
\* only to users the provider lists for the current lobby.
C30_BroadcastToCurrentMembers ==
    [][broadcast_packet =>
          Range(castTo') \subseteq
              (IF state = "InLobby" THEN Range(MembersOf(roster, curr.id)) ELSE {})]_vars

\* C31: MessageRegistry::send of a decodable message for a kind whose
\* queue is full returns at once with the message dropped: every queue
\* keeps its contents and order, the registry is unchanged, the drop is
\* reported as a full queue and not as a failure to decode, nothing
\* panics, and a send that follows, for any registered kind whose queue
\* has room, is delivered.
C31_FullQueueDrops ==
    [][\A id \in DispatchIds, b \in PayloadBytes :
           (/\ dispatch(id, b, Peer)
            /\ Lookup(registry, id) # NoKind
            /\ CborDecode(b).ok
            /\ IsFull(queues[registry[id].tx])) =>
               /\ queues' = queues
               /\ registry' = registry
               /\ dispatched' = [id |-> id, outcome |-> "queue_full"]
               /\ ~panicked'
               /\ started'
               /\ \A id2 \in DOMAIN registry', b2 \in PayloadBytes :
                      (CborDecode(b2).ok /\ ~IsFull(queues'[registry'[id2].tx])) =>
                          MessageRegistry_send(registry', queues', id2, b2,
                                               Peer).outcome = "delivered"]_vars

\* with two kinds registered, a message for the kind whose queue is full
\* of two different messages has just been dropped, and the other kind's
\* queue has room
C31_DroppedOnFull ==
    /\ Cardinality(DOMAIN registry) = 2
    /\ dispatched # NoKind
    /\ dispatched.outcome = "queue_full"
    /\ Lookup(registry, dispatched.id) # NoKind
    /\ LET q == queues[registry[dispatched.id].tx]
       IN Len(q) = ChannelSize /\ q[1] # q[2]
    /\ \E k \in DOMAIN registry : queues[registry[k].tx] = <<>>

====
